---------------------------- MODULE Spec2Model ----------------------------
(***************************************************************************)
(* Model of the audio chunking and transcription pipeline of the           *)
(* meetings-ai Obsidian plugin:                                            *)
(*   src/src/transcribeAudio.ts            transcribeAudio and its two     *)
(*                                         variants, the prompt window     *)
(*   src/src/utils/audioDataToChunkedFiles.ts   the chunk encoder          *)
(*                                                                         *)
(* Strings are sequences of one-character strings.  Seconds are integers.  *)
(***************************************************************************)
EXTENDS Integers, Sequences, FiniteSets, TLC

VARIABLES
  \* ---- one invocation of transcribeAudio --------------------------------
  model,            \* TranscriptionOptions.model
  prompt,           \* TranscriptionOptions.prompt (the base hint)
  audioChunks,      \* TranscriptionOptions.audioChunks
  onChunkStart,     \* TRUE when the optional callback was supplied
  pc,               \* position of the async function
  i,                \* index of the for-of loop
  fullText,         \* whisper-1 only: transcript so far
  allSegments,
  segmentIdOffset,
  timeOffset,
  requests,         \* calls handed to client.audio.transcriptions.create
  responses,        \* what came back, in order of arrival
  inflight,         \* calls dispatched and not yet settled
  progress,         \* arguments of every onChunkStart invocation
  result,           \* the value the returned promise resolved to
  \* ---- one invocation of audioDataToChunkedFiles ------------------------
  audioData,        \* the input ArrayBuffer (a sequence of bytes)
  maxSize,
  fileExtension,
  monoBuffer,       \* the decoded, downmixed AudioBuffer
  cpc,              \* position of the async function
  ci,               \* index of the for loop
  chunks,           \* the AudioChunk[] under construction
  steps,            \* the decoding and encoding steps run so far
  \* ---- a second, concurrent invocation of transcribeAudio ---------------
  other,            \* its options, position and local variables
  \* ---- one call of formatSpeakerLabel -----------------------------------
  speakerTag,       \* the argument raw
  speakerLabel,     \* the returned string
  lpc,              \* "start" before the call, "done" after it
  \* ---- one call of MeetingAI.stopMeetingRecording -----------------------
  recorder,         \* audioRecorder.state
  settings,         \* the plugin settings read by the call
  blob,             \* the bytes of the recorded blob
  vault,            \* paths of the binary files created in the vault
  audioFile,        \* the TFile created for the recording, if any
  spc,              \* position of the async function
  outcome,          \* the value the returned promise resolved to
  \* ---- the MeetingWidget instances of one note --------------------------
  errorCache,       \* MeetingWidget.errorCache.get(sourcePath)
  cachedResults,    \* MeetingWidget.resultCache.get(sourcePath), <<>> if none
  noteFile,         \* the marker blocks of the note's file
  widget,           \* the instance now attached to the note
  detached,         \* what earlier instances of the note still have pending
  ops,              \* saveErrorToFile / clearErrorFromFile calls under way
  created,          \* number of instances created so far
  entered,          \* the error state last entered through setState, if
                    \* no setState to idle or done followed it
  notesContent,     \* this.notesContent as last handed to saveNotesToFile
  trashBtn,         \* the trash button the attached instance rendered last
  clicks,           \* what happened to that button since it was rendered
  \* ---- one sample written by audioBufferToWav ---------------------------
  sample,           \* getChannelData(channel)[i], in units of 1 / SampleUnit
  pcm,              \* the 16-bit value read back from the DataView
  wpc               \* "start" before the write, "done" after it

tvars == <<model, prompt, audioChunks, onChunkStart, pc, i, fullText,
           allSegments, segmentIdOffset, timeOffset, requests, responses,
           inflight, progress, result>>
cvars == <<audioData, maxSize, fileExtension, monoBuffer, cpc, ci, chunks,
           steps>>
ovars == <<other>>
lvars == <<speakerTag, speakerLabel, lpc>>
svars == <<recorder, settings, blob, vault, audioFile, spc, outcome>>
wvars == <<errorCache, cachedResults, noteFile, widget, detached, ops,
           created, entered, notesContent, trashBtn, clicks>>
evars == <<sample, pcm, wpc>>
xvars == <<ovars, lvars, svars, wvars, evars>>
\* what the actions of one part leave alone
exceptOther == <<tvars, cvars, lvars, svars, wvars, evars>>
exceptLabel == <<tvars, cvars, ovars, svars, wvars, evars>>
exceptStop == <<ovars, lvars, wvars, evars>>
exceptWidget == <<tvars, cvars, ovars, lvars, svars, evars>>
exceptWav == <<tvars, cvars, ovars, lvars, svars, wvars>>
vars == <<tvars, cvars, xvars>>

Null == "null"

Min(a, b) == IF a < b THEN a ELSE b
Max(a, b) == IF a > b THEN a ELSE b

-----------------------------------------------------------------------------
(* Bounds of the model *)

MaxSampleUnits == 32
MaxWidgets == 3
MaxOps == 2
MaxDigits == 2
MaxChunks == 2
MaxSegs == 2
MaxSamples == 7
MaxChunkSamples == 3

-----------------------------------------------------------------------------
(* Strings and the tokenizer *)

SP == " "
ELLIPSIS == "..."
Words == <<"a", "b", "c">>

\* n words separated by single spaces
Sentence(n) ==
  [p \in 1..(IF n = 0 THEN 0 ELSE 2 * n - 1) |->
     IF p % 2 = 1 THEN Words[1 + (((p + 1) \div 2) % Len(Words))] ELSE SP]

\* String.prototype.trim
trim(s) ==
  LET keep == {p \in 1..Len(s) : s[p] # SP}
  IN IF keep = {} THEN <<>>
     ELSE LET lo == CHOOSE p \in keep : \A q \in keep : p <= q
              hi == CHOOSE p \in keep : \A q \in keep : p >= q
          IN SubSeq(s, lo, hi)

\* r.text ?? '' (an absent field reads as undefined)
textOf(r) == IF "text" \in DOMAIN r THEN r.text ELSE <<>>

\* gpt-tokenizer encode: a token is a non-empty run of characters; a space
\* is merged with the word that follows it, every other character stands
\* alone.
encode(s) ==
  LET starts(p) == s[p] = SP \/ p = 1 \/ s[p - 1] # SP
      at == SelectSeq([p \in 1..Len(s) |-> p], starts)
  IN [k \in 1..Len(at) |->
        IF s[at[k]] = SP /\ at[k] < Len(s) /\ s[at[k] + 1] # SP
        THEN <<SP, s[at[k] + 1]>>
        ELSE <<s[at[k]]>>]

\* gpt-tokenizer decode: the characters of the tokens, concatenated
RECURSIVE decode(_)
decode(toks) ==
  IF toks = <<>> THEN <<>>
  ELSE IF Len(toks) = 1 THEN toks[1]
  ELSE LET half == Len(toks) \div 2
       IN decode(SubSeq(toks, 1, half)) \o decode(SubSeq(toks, half + 1, Len(toks)))

\* Array.prototype.slice(start) with one argument
slice(arr, start) ==
  LET from == IF start < 0 THEN Max(Len(arr) + start, 0)
              ELSE Min(start, Len(arr))
  IN SubSeq(arr, from + 1, Len(arr))

-----------------------------------------------------------------------------
(* transcribeAudio.ts: constants and pure helpers *)

WHISPER_TOKEN_LIMIT == 224

WHISPER == "whisper-1"
DIARIZE == "gpt-4o-transcribe-diarize"

NoResult == [pending |-> TRUE]
Failure == [rejected |-> TRUE]

\* the separator appended to the base prompt before it is tokenized
SEPARATOR == <<SP, ELLIPSIS, SP>>

mixBasePromptAndTranscript(basePrompt, transcript) ==
  IF Len(transcript) = 0 THEN basePrompt
  ELSE LET promptTokens == encode(basePrompt \o SEPARATOR)
           transcriptTokens == encode(transcript)
           availableTokens == WHISPER_TOKEN_LIMIT - Len(promptTokens)
       IN decode(promptTokens \o slice(transcriptTokens, 0 - availableTokens))

\* res.segments ?? []
rawSegmentsOf(res) ==
  IF "segments" \in DOMAIN res THEN res.segments ELSE <<>>

\* the body of the inner for loop: one TranscriptSegment per raw segment
assemble(rawSegments, idOffset, tOffset, withSpeaker) ==
  [j \in 1..Len(rawSegments) |->
     [id |-> idOffset + (j - 1),
      start |-> rawSegments[j].start + tOffset,
      end |-> rawSegments[j].end + tOffset,
      text |-> trim(textOf(rawSegments[j])),
      speaker |-> IF withSpeaker /\ "speaker" \in DOMAIN rawSegments[j]
                  THEN rawSegments[j].speaker ELSE Null]]

\* variant: the id offset is never advanced
nextSegmentIdOffsetStale(segments) == 0

\* segmentIdOffset = allSegments.length
nextSegmentIdOffset(segments) == Len(segments)

\* variant: the offset advances by the duration the response reports
nextTimeOffsetFromResponse(tOffset, chunk, res) == tOffset + res.duration

\* variant: the offset is never advanced
nextTimeOffsetStale(tOffset, chunk, res) == tOffset

\* timeOffset += chunk.duration
nextTimeOffset(tOffset, chunk, res) == tOffset + chunk.duration

\* variant: the separator is put in front of chunk 0 too
nextFullTextAlwaysSeparated(text, index, res) ==
  text \o <<SP>> \o trim(textOf(res))

\* fullText += sep + chunkText
nextFullText(text, index, res) ==
  LET chunkText == trim(textOf(res))
      sep == IF index = 0 THEN <<>> ELSE <<SP>>
  IN text \o sep \o chunkText

\* variant: the texts joined without a separator
RECURSIVE joinTextsNoSeparator(_)
joinTextsNoSeparator(segments) ==
  IF segments = <<>> THEN <<>>
  ELSE joinTextsNoSeparator(SubSeq(segments, 1, Len(segments) - 1))
         \o segments[Len(segments)].text

\* allSegments.map((s) => s.text).join(' ')
RECURSIVE joinTexts(_)
joinTexts(segments) ==
  IF segments = <<>> THEN <<>>
  ELSE IF Len(segments) = 1 THEN segments[1].text
  ELSE joinTexts(SubSeq(segments, 1, Len(segments) - 1))
         \o <<SP>> \o segments[Len(segments)].text

\* variant: the transcript so far is left out of the prompt
requestForNoContext(index) ==
  IF model = WHISPER
  THEN [chunk |-> index, model |-> WHISPER,
        file |-> audioChunks[index + 1].file, prompt |-> prompt]
  ELSE [chunk |-> index, model |-> DIARIZE,
        file |-> audioChunks[index + 1].file]

\* variant: the diarization request carries the text of the segments
\* assembled so far as its prompt
requestForWithTranscript(index) ==
  [chunk |-> index, model |-> model,
   file |-> audioChunks[index + 1].file,
   prompt |-> IF model = WHISPER
              THEN mixBasePromptAndTranscript(prompt, fullText)
              ELSE joinTexts(allSegments)]

\* the request object built for chunk index (0-based)
requestFor(index) ==
  IF model = WHISPER
  THEN [chunk |-> index, model |-> WHISPER,
        file |-> audioChunks[index + 1].file,
        prompt |-> mixBasePromptAndTranscript(prompt, fullText)]
  ELSE [chunk |-> index, model |-> DIARIZE,
        file |-> audioChunks[index + 1].file]

\* variant: the callback is handed a 1-based chunk number
onChunkStartArgsOneBased(index) == <<index + 1, Len(audioChunks)>>

\* onChunkStart(i, audioChunks.length)
onChunkStartArgs(index) == <<index, Len(audioChunks)>>

\* variant: the call is not awaited
atLoopHeadOrAwaiting == pc \in {"loop", "await"}

\* the loop goes on to its next iteration only from the loop head: the
\* await of the previous call has returned
atLoopHead == pc = "loop"

-----------------------------------------------------------------------------
(* audioDataToChunkedFiles.ts: constants and pure helpers *)

WAV_HEADER_BYTES == 44
BYTES_PER_SAMPLE == 2

NoBuffer == [none |-> TRUE]
\* a JavaScript number: finite, Infinity or NaN
Finite(n) == [kind |-> "finite", value |-> n]
Infinity == [kind |-> "Infinity"]
NaN == [kind |-> "NaN"]

\* seconds as a fraction: n / d
Seconds(n, d) == <<n, d>>

\* audio_NNN.ext
fileName(index, extension) == <<"audio", index, extension>>

\* toFile(bytes, name) of the fast path: the file wraps the bytes as they are
toFile(bytes, name) == [name |-> name, bytes |-> bytes]

\* variant: an input of exactly maxSize bytes is re-encoded
fitsStrictlyBelow(data, limit) == Len(data) < limit

\* audioData.byteLength <= maxSize
fitsInOneChunk(data, limit) == Len(data) <= limit

\* variant: the sample budget rounded up instead of down
chunkSamplesRoundedUp(limit) ==
  (limit - WAV_HEADER_BYTES + 1) \div BYTES_PER_SAMPLE

\* Math.floor((maxSize - 44) / 2)
chunkSamplesFor(limit) == (limit - WAV_HEADER_BYTES) \div BYTES_PER_SAMPLE

\* Math.ceil(length / chunkSamples) in IEEE arithmetic, length >= 0
nChunksFor(length, chunkSamples) ==
  IF chunkSamples > 0
  THEN Finite((length + chunkSamples - 1) \div chunkSamples)
  ELSE IF chunkSamples = 0 THEN (IF length = 0 THEN NaN ELSE Infinity)
  ELSE Finite(0 - (length \div (0 - chunkSamples)))

\* i < nChunks
below(index, n) ==
  n = Infinity \/ (n.kind = "finite" /\ index < n.value)

\* audioBufferToMono: all channels averaged into one, a mono buffer as it is
audioBufferToMono(buffer) ==
  IF buffer.numberOfChannels = 1 THEN buffer
  ELSE [length |-> buffer.length, sampleRate |-> buffer.sampleRate,
        numberOfChannels |-> 1]

\* audioBufferToWav: a 44-byte header and two bytes per sample and channel;
\* the samples are those of the slice [from, to) of the mono buffer
audioBufferToWav(length, sampleRate, from) ==
  LET dataBytes == length * 1 * BYTES_PER_SAMPLE
  IN [byteLength |-> WAV_HEADER_BYTES + dataBytes,
      riffSize |-> 36 + dataBytes,
      numOfChannels |-> 1,
      sampleRate |-> sampleRate,
      dataBytes |-> dataBytes,
      from |-> from,
      to |-> from + length]

-----------------------------------------------------------------------------
(* Inputs of transcribeAudio *)

Durations == {1, 3}

\* the lists audioDataToChunkedFiles can return: one chunk of duration 0
\* (fast path), or chunks of one common duration of which the last may be
\* shorter (slow path), or none; chunk k wraps its own file k
ChunkLists ==
  {<<[file |-> 0, duration |-> 0]>>} \cup
  {[k \in 1..c.n |-> [file |-> k - 1,
                      duration |-> IF k < c.n THEN c.full ELSE c.last]] :
     c \in {x \in [n : 0..MaxChunks, full : Durations, last : Durations] :
              x.last <= x.full}}

\* the raw segments a response may carry: one at the start of the chunk
\* with a text to trim (and, in the diarization variant, a speaker tag), one
\* later in the chunk with neither text nor tag
RawSegments(m) ==
  {IF m = DIARIZE
   THEN [start |-> 0, end |-> 1, text |-> <<SP, "a", SP>>,
         speaker |-> "speaker_1"]
   ELSE [start |-> 0, end |-> 1, text |-> <<SP, "a", SP>>],
   [start |-> 2, end |-> 3]}

RawSegmentLists(m) ==
  UNION {[1..n -> RawSegments(m)] : n \in 0..MaxSegs}

\* the text and the duration a response reports for its segments
RECURSIVE rawText(_)
rawText(segs) ==
  IF segs = <<>> THEN <<>>
  ELSE rawText(SubSeq(segs, 1, Len(segs) - 1)) \o textOf(segs[Len(segs)])

reportedDuration(segs) == IF segs = <<>> THEN 0 ELSE segs[Len(segs)].end

\* responses that vary in their segments, and one without segments
SegResponses(m) ==
  {[text |-> rawText(segs), segments |-> segs,
    duration |-> reportedDuration(segs)] : segs \in RawSegmentLists(m)}
  \cup {[duration |-> 0]}

\* responses that vary in their text, and one without text
ResponseTexts == {<<SP>> \o Sentence(2) \o <<SP>>, Sentence(5)}

TextResponses ==
  {[text |-> t, duration |-> 0] : t \in ResponseTexts} \cup {[duration |-> 0]}

\* base hints: empty, three tokens short of the limit, exactly at the limit
\* (the separator adds two tokens to the words of the hint)
Hints ==
  {Sentence(n) : n \in {0, WHISPER_TOKEN_LIMIT - 5, WHISPER_TOKEN_LIMIT - 2}}

-----------------------------------------------------------------------------
(* The parts of the model a specification leaves idle *)

\* no second invocation
NoInvocation == [pc |-> "idle"]

OtherIdle == other = NoInvocation

LabelIdle ==
  /\ speakerTag = <<>>
  /\ speakerLabel = <<>>
  /\ lpc = "idle"

NoOutcome == [pending |-> TRUE]

\* let audioFile: TFile | undefined
NoFile == [none |-> TRUE]

StopIdle ==
  /\ recorder = "inactive"
  /\ settings = [saveAudio |-> TRUE]
  /\ blob = <<>>
  /\ vault = {}
  /\ audioFile = NoFile
  /\ spc = "idle"
  /\ outcome = NoOutcome

\* Map.get of a key that is not there; extractBetween returning null
NoEntry == [none |-> TRUE]

NoWidget == [status |-> "none"]

NoHandler == [kind |-> "none"]

\* a note file without any marker block
EmptyNote ==
  [error |-> NoEntry, results |-> FALSE, segments |-> <<>>, notes |-> ""]

\* a trash button as renderTrashButton creates it
NewButton == [confirmActive |-> FALSE, confirmTimeout |-> FALSE]

WidgetIdle ==
  /\ errorCache = NoEntry
  /\ cachedResults = <<>>
  /\ noteFile = EmptyNote
  /\ widget = NoWidget
  /\ detached = [handler |-> NoHandler, load |-> FALSE]
  /\ ops = <<>>
  /\ created = 0
  /\ entered = NoEntry
  /\ notesContent = ""
  /\ trashBtn = NewButton
  /\ clicks = <<>>

WavIdle ==
  /\ sample = 0
  /\ pcm = 0
  /\ wpc = "idle"

ExtrasIdle == OtherIdle /\ LabelIdle /\ StopIdle /\ WidgetIdle /\ WavIdle

-----------------------------------------------------------------------------
(* State machine of one transcribeAudio invocation *)

ChunkerIdle ==
  /\ audioData = <<>>
  /\ maxSize = 0
  /\ fileExtension = "wav"
  /\ monoBuffer = NoBuffer
  /\ cpc = "idle"
  /\ ci = 0
  /\ chunks = <<>>
  /\ steps = <<>>

TranscribeStart(ms, ps) ==
  /\ model \in ms
  /\ prompt \in (IF model = WHISPER THEN ps ELSE {<<>>})
  /\ audioChunks \in ChunkLists
  /\ onChunkStart \in BOOLEAN
  /\ pc = "loop"
  /\ i = 0
  /\ fullText = <<>>
  /\ allSegments = <<>>
  /\ segmentIdOffset = 0
  /\ timeOffset = 0
  /\ requests = <<>>
  /\ responses = <<>>
  /\ inflight = 0
  /\ progress = <<>>
  /\ result = NoResult

\* loop head with a chunk left: notify, then issue the call and await it
Dispatch ==
  /\ atLoopHead
  /\ i < Len(audioChunks)
  /\ progress' = IF onChunkStart
                 THEN Append(progress, onChunkStartArgs(i))
                 ELSE progress
  /\ requests' = Append(requests, requestFor(i))
  /\ inflight' = inflight + 1
  /\ pc' = "await"
  /\ UNCHANGED <<model, prompt, audioChunks, onChunkStart, i, fullText,
                 allSegments, segmentIdOffset, timeOffset, responses, result>>
  /\ UNCHANGED <<cvars, xvars>>

\* the awaited call resolves with res: the rest of the loop body runs
Respond(res) ==
  /\ pc = "await"
  /\ inflight > 0
  /\ LET segs == allSegments \o
                   assemble(rawSegmentsOf(res), segmentIdOffset, timeOffset,
                            model = DIARIZE)
     IN /\ allSegments' = segs
        /\ segmentIdOffset' = nextSegmentIdOffset(segs)
  /\ timeOffset' = nextTimeOffset(timeOffset, audioChunks[i + 1], res)
  /\ fullText' = IF model = WHISPER THEN nextFullText(fullText, i, res)
                 ELSE fullText
  /\ responses' = Append(responses, res)
  /\ inflight' = inflight - 1
  /\ i' = i + 1
  /\ pc' = "loop"
  /\ UNCHANGED <<model, prompt, audioChunks, onChunkStart, requests,
                 progress, result>>
  /\ UNCHANGED <<cvars, xvars>>

\* variant: the rejection is caught and the loop goes on
afterRejectionSkip == [pc |-> "loop", i |-> i + 1]

\* what a rejected call does to the invocation: nothing catches it, the
\* returned promise rejects
afterRejection == [pc |-> "failed", i |-> i]

\* the awaited call rejects
Reject ==
  /\ pc = "await"
  /\ inflight > 0
  /\ responses' = Append(responses, Failure)
  /\ inflight' = inflight - 1
  /\ pc' = afterRejection.pc
  /\ i' = afterRejection.i
  /\ UNCHANGED <<model, prompt, audioChunks, onChunkStart, fullText,
                 allSegments, segmentIdOffset, timeOffset, requests,
                 progress, result>>
  /\ UNCHANGED <<cvars, xvars>>

\* loop exhausted: return { text, segments }
Return ==
  /\ atLoopHead
  /\ i >= Len(audioChunks)
  /\ result' = [text |-> IF model = DIARIZE THEN joinTexts(allSegments)
                         ELSE fullText,
                segments |-> allSegments]
  /\ pc' = "done"
  /\ UNCHANGED <<model, prompt, audioChunks, onChunkStart, i, fullText,
                 allSegments, segmentIdOffset, timeOffset, requests,
                 responses, inflight, progress>>
  /\ UNCHANGED <<cvars, xvars>>

\* both variants, a short base hint, responses that vary in their segments
Init ==
  /\ TranscribeStart({WHISPER, DIARIZE}, {Sentence(2)})
  /\ ChunkerIdle
  /\ ExtrasIdle

Next ==
  \/ Dispatch
  \/ \E res \in SegResponses(model) : Respond(res)
  \/ Reject
  \/ Return

Spec == Init /\ [][Next]_vars

\* the whisper-1 variant, base hints around the token limit, responses
\* that vary in their text
InitPrompt ==
  /\ TranscribeStart({WHISPER}, Hints)
  /\ ChunkerIdle
  /\ ExtrasIdle

NextPrompt ==
  \/ Dispatch
  \/ \E res \in TextResponses : Respond(res)
  \/ Reject
  \/ Return

SpecPrompt == InitPrompt /\ [][NextPrompt]_vars

-----------------------------------------------------------------------------
(* Properties of transcribeAudio *)

\* number of raw segments carried by the first k responses
RECURSIVE SegmentsBefore(_)
SegmentsBefore(k) ==
  IF k = 0 THEN 0
  ELSE SegmentsBefore(k - 1) + Len(rawSegmentsOf(responses[k]))

\* sum of the durations of the first k chunks of the AudioChunk list
RECURSIVE SumDurations(_)
SumDurations(k) ==
  IF k = 0 THEN 0 ELSE SumDurations(k - 1) + audioChunks[k].duration

IdsAreIndices(segments) ==
  \A n \in 1..Len(segments) : segments[n].id = n - 1

\* C1: the segments assembled so far, and the segments of the returned
\* result, carry the ids 0, 1, ..., N-1 in order, also when some response
\* has no segments.
C1_SegmentIds ==
  /\ IdsAreIndices(allSegments)
  /\ result # NoResult => IdsAreIndices(result.segments)

C1_Witness ==
  /\ pc = "done"
  /\ Len(responses) = 2
  /\ "segments" \notin DOMAIN responses[1]
  /\ Len(result.segments) = 2

\* C2: the j-th segment built from the response of chunk k starts and ends
\* at its chunk-local time plus the sum of the durations the AudioChunk list
\* carries for chunks 0..k-1.
C2_Offsets ==
  \A k \in 1..Len(responses) :
    \A j \in 1..Len(rawSegmentsOf(responses[k])) :
      LET raw == rawSegmentsOf(responses[k])[j]
          seg == allSegments[SegmentsBefore(k - 1) + j]
      IN /\ seg.start = raw.start + SumDurations(k - 1)
         /\ seg.end = raw.end + SumDurations(k - 1)

C2_Witness ==
  /\ pc = "done"
  /\ Len(responses) = 2
  /\ audioChunks[1].duration = 3
  /\ responses[1].duration # audioChunks[1].duration
  /\ Len(rawSegmentsOf(responses[2])) > 0
  /\ result.segments[Len(result.segments)].start >= 3

LocallySorted(res) ==
  \A j \in 1..(Len(rawSegmentsOf(res)) - 1) :
    rawSegmentsOf(res)[j].start <= rawSegmentsOf(res)[j + 1].start

StartsAscend ==
  \A n \in 1..(Len(allSegments) - 1) :
    allSegments[n].start <= allSegments[n + 1].start

StartsWithinChunk ==
  \A k \in 1..Len(responses) :
    k < Len(audioChunks) =>
      \A j \in 1..Len(rawSegmentsOf(responses[k])) :
        /\ rawSegmentsOf(responses[k])[j].start >= 0
        /\ rawSegmentsOf(responses[k])[j].start <= audioChunks[k].duration

C4_Sequential ==
  /\ inflight <= 1
  /\ \A n \in 1..Len(requests) :
       /\ requests[n].chunk = n - 1
       /\ requests[n].file = audioChunks[n].file
  /\ Len(requests) = Len(responses) + inflight
  /\ pc = "done" => Len(requests) = Len(audioChunks)

C4_Witness ==
  /\ pc = "done"
  /\ Len(audioChunks) = 2
  /\ Len(requests) = 2

\* C5: once the call for chunk k has failed, the invocation has failed: the
\* failed call is the last one made, every chunk was called at most once,
\* and no result is returned.
C5_FailFast ==
  \A k \in 1..Len(responses) :
    responses[k] = Failure =>
      /\ pc = "failed"
      /\ k = Len(responses)
      /\ Len(requests) = k
      /\ \A m, n \in 1..Len(requests) :
           requests[m].chunk = requests[n].chunk => m = n
      /\ inflight = 0
      /\ result = NoResult

C5_Witness ==
  /\ pc = "failed"
  /\ Len(audioChunks) = 2
  /\ responses = <<Failure>>
  /\ result = NoResult

\* the transcript accumulated from the first k responses: their trimmed
\* texts, a space between consecutive chunks
RECURSIVE AccumulatedText(_)
AccumulatedText(k) ==
  IF k = 0 THEN <<>>
  ELSE IF k = 1 THEN trim(textOf(responses[1]))
  ELSE AccumulatedText(k - 1) \o <<SP>> \o trim(textOf(responses[k]))

\* C6: every prompt sent holds at most 224 tokens.
C6_PromptWithinLimit ==
  \A n \in 1..Len(requests) :
    Len(encode(requests[n].prompt)) <= WHISPER_TOKEN_LIMIT

\* the last m elements of a sequence (none when m <= 0)
LastTokens(toks, m) ==
  IF m <= 0 THEN <<>> ELSE SubSeq(toks, Len(toks) - m + 1, Len(toks))

\* C7: with h the token length of the base hint as it is put in front of
\* the context, a non-empty transcript of more than 224 - h tokens makes
\* the prompt exactly the hint followed by the last 224 - h tokens of the
\* transcript.
C7_PromptWindow ==
  \A n \in 1..Len(requests) :
    LET hint == encode(prompt \o SEPARATOR)
        context == encode(AccumulatedText(n - 1))
        h == Len(hint)
    IN (Len(context) > 0 /\ Len(context) > WHISPER_TOKEN_LIMIT - h) =>
         requests[n].prompt =
           decode(hint \o LastTokens(context, WHISPER_TOKEN_LIMIT - h))

\* C8: the prompt of the call for chunk 0 is the base hint alone, and the
\* prompt of the call for chunk i is built from the text accumulated from
\* the responses of chunks 0..i-1, all of which have arrived by then.
C8_ContextFolded ==
  \A n \in 1..Len(requests) :
    /\ Len(responses) >= n - 1
    /\ n = 1 => requests[n].prompt = prompt
    /\ requests[n].prompt =
         mixBasePromptAndTranscript(prompt, AccumulatedText(n - 1))

C8_Witness ==
  /\ Len(requests) = 2
  /\ requests[1].prompt = prompt
  /\ Len(AccumulatedText(1)) > 0
  /\ requests[2].prompt # prompt

\* number of characters in front of the n-th part when the parts are
\* joined with single spaces
RECURSIVE PartStart(_, _)
PartStart(parts, n) ==
  IF n = 1 THEN 0 ELSE PartStart(parts, n - 1) + Len(parts[n - 1]) + 1

\* text is the parts in order, one space between consecutive parts and
\* nothing else
JoinedBySpaces(text, parts) ==
  IF parts = <<>> THEN text = <<>>
  ELSE /\ Len(text) = PartStart(parts, Len(parts)) + Len(parts[Len(parts)])
       /\ \A n \in 1..Len(parts) :
            /\ SubSeq(text, PartStart(parts, n) + 1,
                      PartStart(parts, n) + Len(parts[n])) = parts[n]
            /\ n > 1 => text[PartStart(parts, n)] = SP

\* the trimmed texts of the responses, in chunk order
TrimmedTexts == [k \in 1..Len(responses) |-> trim(textOf(responses[k]))]

\* C22: in the whisper-1 variant the transcript accumulated from the
\* responses that arrived, and the text of the returned result, are the
\* trimmed texts of the chunks in chunk order with exactly one space
\* between consecutive chunks and nothing in front of the text of chunk 0.
C22_WhisperText ==
  model = WHISPER =>
    /\ pc # "failed" => JoinedBySpaces(fullText, TrimmedTexts)
    /\ pc = "done" => JoinedBySpaces(result.text, TrimmedTexts)

C22_Witness ==
  /\ model = WHISPER
  /\ pc = "done"
  /\ Len(responses) = 2
  /\ textOf(responses[1]) # trim(textOf(responses[1]))
  /\ Len(trim(textOf(responses[1]))) > 0
  /\ Len(trim(textOf(responses[2]))) > 0
  /\ Len(result.text) =
       Len(trim(textOf(responses[1]))) + 1 + Len(trim(textOf(responses[2])))

\* the text fields of the segments, in order
SegmentTexts(segments) == [n \in 1..Len(segments) |-> segments[n].text]

\* C23: in the diarization variant the text of the returned result is the
\* text fields of all segments of the result, in result order, joined with
\* single spaces.
C23_DiarizeText ==
  (model = DIARIZE /\ pc = "done") =>
    JoinedBySpaces(result.text, SegmentTexts(result.segments))

C23_Witness ==
  /\ model = DIARIZE
  /\ pc = "done"
  /\ Len(responses) = 2
  /\ Len(result.segments) = 3
  /\ result.segments[1].text # <<>>
  /\ result.segments[2].text = <<>>
  /\ result.segments[3].text # <<>>
  /\ Len(result.text) = 4

-----------------------------------------------------------------------------
(* State machine of one audioDataToChunkedFiles invocation *)

SampleRates == {1, 2}

\* maxSize from two bytes short of a WAV header up to a header with
\* MaxChunkSamples samples and an odd byte
MaxSizes ==
  (WAV_HEADER_BYTES - 2)..
    (WAV_HEADER_BYTES + BYTES_PER_SAMPLE * MaxChunkSamples + 1)

InputBytes(n) == [p \in 1..n |-> (7 * p) % 256]

\* what decodeAudioData may resolve to
DecodedBuffers ==
  [length : 1..MaxSamples, sampleRate : SampleRates,
   numberOfChannels : {1, 2}]

TranscribeIdle ==
  /\ model = WHISPER
  /\ prompt = <<>>
  /\ audioChunks = <<>>
  /\ onChunkStart = FALSE
  /\ pc = "idle"
  /\ i = 0
  /\ fullText = <<>>
  /\ allSegments = <<>>
  /\ segmentIdOffset = 0
  /\ timeOffset = 0
  /\ requests = <<>>
  /\ responses = <<>>
  /\ inflight = 0
  /\ progress = <<>>
  /\ result = NoResult

InitChunk ==
  /\ maxSize \in MaxSizes
  /\ audioData \in {InputBytes(n) : n \in (maxSize - 1)..(maxSize + 2)}
  /\ fileExtension = "wav"
  /\ monoBuffer = NoBuffer
  /\ cpc = "start"
  /\ ci = 0
  /\ chunks = <<>>
  /\ steps = <<>>
  /\ TranscribeIdle
  /\ ExtrasIdle

\* fast path: the input is wrapped as the only chunk
FastPath ==
  /\ cpc = "start"
  /\ fitsInOneChunk(audioData, maxSize)
  /\ chunks' = <<[file |-> toFile(audioData, fileName(0, fileExtension)),
                  duration |-> Seconds(0, 1)]>>
  /\ cpc' = "done"
  /\ UNCHANGED <<audioData, maxSize, fileExtension, monoBuffer, ci, steps>>
  /\ UNCHANGED <<tvars, xvars>>

\* slow path: decodeAudioData resolves, the buffer is downmixed
Decode(sourceBuffer) ==
  /\ cpc = "start"
  /\ ~fitsInOneChunk(audioData, maxSize)
  /\ monoBuffer' = audioBufferToMono(sourceBuffer)
  /\ steps' = steps \o <<"decodeAudioData", "audioBufferToMono">>
  /\ ci' = 0
  /\ cpc' = "loop"
  /\ UNCHANGED <<audioData, maxSize, fileExtension, chunks>>
  /\ UNCHANGED <<tvars, xvars>>

\* variant: the rejection is swallowed and the empty chunk list returned
afterDecodeFailureSwallowed == "done"

\* nothing catches the rejection of decodeAudioData: the call rejects
afterDecodeFailure == "failed"

\* slow path: decodeAudioData rejects
DecodeFail ==
  /\ cpc = "start"
  /\ ~fitsInOneChunk(audioData, maxSize)
  /\ steps' = Append(steps, "decodeAudioData")
  /\ cpc' = afterDecodeFailure
  /\ UNCHANGED <<audioData, maxSize, fileExtension, monoBuffer, ci, chunks>>
  /\ UNCHANGED <<tvars, xvars>>

\* variant: createBuffer accepts a length of 0
createBufferAcceptsZero(length) == length < 0

\* audioContext.createBuffer(1, length, sampleRate) throws
\* NotSupportedError for a length below 1
createBufferThrows(length) == length < 1

\* one iteration of the chunk loop (the loop index is capped one above the
\* number of iterations a buffer of MaxSamples samples can need)
ChunkStep ==
  /\ cpc = "loop"
  /\ ci <= MaxSamples
  /\ LET chunkSamples == chunkSamplesFor(maxSize)
         nChunks == nChunksFor(monoBuffer.length, chunkSamples)
         startSample == ci * chunkSamples
         endSample == Min((ci + 1) * chunkSamples, monoBuffer.length)
     IN /\ below(ci, nChunks)
        /\ IF createBufferThrows(endSample - startSample)
           THEN /\ cpc' = "failed"
                /\ UNCHANGED <<ci, chunks, steps>>
           ELSE /\ chunks' = Append(chunks,
                     [file |-> [name |-> fileName(ci, "wav"),
                                wav |-> audioBufferToWav(
                                          endSample - startSample,
                                          monoBuffer.sampleRate, startSample)],
                      duration |-> Seconds(endSample - startSample,
                                           monoBuffer.sampleRate)])
                /\ steps' = Append(steps, "audioBufferToWav")
                /\ ci' = ci + 1
                /\ cpc' = "loop"
  /\ UNCHANGED <<audioData, maxSize, fileExtension, monoBuffer>>
  /\ UNCHANGED <<tvars, xvars>>

\* the loop is over: return chunks
ReturnChunks ==
  /\ cpc = "loop"
  /\ ~below(ci, nChunksFor(monoBuffer.length, chunkSamplesFor(maxSize)))
  /\ cpc' = "done"
  /\ UNCHANGED <<audioData, maxSize, fileExtension, monoBuffer, ci, chunks,
                 steps>>
  /\ UNCHANGED <<tvars, xvars>>

NextChunk ==
  \/ FastPath
  \/ \E sourceBuffer \in DecodedBuffers : Decode(sourceBuffer)
  \/ DecodeFail
  \/ ChunkStep
  \/ ReturnChunks

SpecChunk == InitChunk /\ [][NextChunk]_vars

\* the chunk loop has no await that can stay pending: toFile resolves, so
\* an iteration that can run does run
SpecChunkLive ==
  SpecChunk /\ WF_vars(ChunkStep) /\ WF_vars(ReturnChunks)

-----------------------------------------------------------------------------
(* Properties of audioDataToChunkedFiles *)

\* C9: an input of at most maxSize bytes comes back as one chunk that holds
\* the very bytes of the input and has duration 0, and no decoding,
\* downmixing or encoding step has run.
C9_FastPath ==
  (cpc # "start" /\ Len(audioData) <= maxSize) =>
    /\ cpc = "done"
    /\ Len(chunks) = 1
    /\ chunks[1].file.bytes = audioData
    /\ chunks[1].duration = Seconds(0, 1)
    /\ steps = <<>>

C9_Witness ==
  /\ cpc = "done"
  /\ Len(audioData) = maxSize
  /\ Len(audioData) > 0
  /\ Len(chunks) = 1

SliceLength(c) == c.file.wav.to - c.file.wav.from

RECURSIVE SumSliceLengths(_)
SumSliceLengths(k) ==
  IF k = 0 THEN 0 ELSE SumSliceLengths(k - 1) + SliceLength(chunks[k])

\* C10: a finished slow path over T samples has returned ceil(T /
\* chunkSamples) chunks, chunkSamples = floor((maxSize - 44) / 2); their
\* slice lengths sum to T, all but the last are chunkSamples long, and the
\* slices follow each other from sample 0 to sample T.
C10_SlowPathChunks ==
  (cpc = "done" /\ monoBuffer # NoBuffer) =>
    LET T == monoBuffer.length
        chunkSamples == chunkSamplesFor(maxSize)
        n == Len(chunks)
    IN /\ n * chunkSamples >= T
       /\ (n - 1) * chunkSamples < T
       /\ SumSliceLengths(n) = T
       /\ \A k \in 1..(n - 1) : SliceLength(chunks[k]) = chunkSamples
       /\ n > 0 => chunks[1].file.wav.from = 0 /\ chunks[n].file.wav.to = T
       /\ \A k \in 1..(n - 1) :
            chunks[k].file.wav.to = chunks[k + 1].file.wav.from

\* file.size of a chunk: the wrapped input bytes on the fast path, the
\* length of the WAV buffer on the slow path
encodedSize(c) ==
  IF "bytes" \in DOMAIN c.file THEN Len(c.file.bytes)
  ELSE c.file.wav.byteLength

\* C11: every chunk audioDataToChunkedFiles returns has an encoded size of
\* at most maxSize bytes: the input length on the fast path, 44 + 2 x slice
\* length on the slow path.
C11_ChunkSize ==
  cpc = "done" =>
    \A k \in 1..Len(chunks) :
      /\ encodedSize(chunks[k]) <= maxSize
      /\ "wav" \in DOMAIN chunks[k].file =>
           encodedSize(chunks[k]) =
             WAV_HEADER_BYTES + BYTES_PER_SAMPLE * SliceLength(chunks[k])

C11_Witness ==
  /\ cpc = "done"
  /\ monoBuffer # NoBuffer
  /\ Len(chunks) >= 2
  /\ maxSize % 2 = 1
  /\ encodedSize(chunks[1]) = maxSize - 1

\* C12: when the slow path is taken with a maxSize below 46 bytes, which
\* cannot hold a 44-byte header and one 16-bit sample, the call fails and
\* returns no chunks.
C12_TooSmallFails ==
  (monoBuffer # NoBuffer /\ maxSize < WAV_HEADER_BYTES + BYTES_PER_SAMPLE
     /\ cpc \notin {"start", "loop"}) =>
    /\ cpc = "failed"
    /\ chunks = <<>>

\* sum of the numerators of the durations of the first k chunks, all over
\* the sample rate of the mono buffer
RECURSIVE SumDurationSamples(_)
SumDurationSamples(k) ==
  IF k = 0 THEN 0 ELSE SumDurationSamples(k - 1) + chunks[k].duration[1]

\* C24: on a finished slow path every chunk's duration is its slice length
\* divided by the sample rate and is not negative, and the durations of
\* all chunks sum to totalSamples / sampleRate.
C24_DurationsSum ==
  (cpc = "done" /\ monoBuffer # NoBuffer) =>
    /\ \A k \in 1..Len(chunks) :
         /\ chunks[k].duration =
              Seconds(SliceLength(chunks[k]), monoBuffer.sampleRate)
         /\ chunks[k].duration[1] >= 0
    /\ Seconds(SumDurationSamples(Len(chunks)), monoBuffer.sampleRate) =
         Seconds(monoBuffer.length, monoBuffer.sampleRate)

\* the chunk list never holds more chunks than the buffer has samples, and
\* the loop fails only when the sample budget is 0, with no chunk made
LoopOutcomes ==
  monoBuffer # NoBuffer =>
    /\ Len(chunks) <= monoBuffer.length
    /\ cpc = "failed" =>
         /\ chunkSamplesFor(maxSize) = 0
         /\ chunks = <<>>

\* C30 as stated: once the buffer is decoded the call comes to return a
\* chunk list, whatever the sample budget.
C30_Original == (cpc = "loop") ~> (cpc = "done")

\* C30 amended: once the buffer is decoded the call comes to an end,
\* whatever the sample budget: it returns a list of at most totalSamples
\* chunks, or, when the sample budget is 0 (maxSize 44 or 45), it rejects
\* in its first iteration without a chunk.
C30_Terminates ==
  []LoopOutcomes /\ ((cpc = "loop") ~> (cpc \in {"done", "failed"}))

C30_Witness ==
  /\ cpc = "failed"
  /\ monoBuffer # NoBuffer
  /\ chunkSamplesFor(maxSize) = 0
  /\ maxSize > 0

-----------------------------------------------------------------------------
(* audioBufferToWav: the conversion of one sample *)

\* samples are multiples of 1 / SampleUnit
SampleUnit == 8

PCM_SCALE == 32767

\* ToIntegerOrInfinity of the quotient n / d: truncation towards zero
truncate(n, d) == IF n >= 0 THEN n \div d ELSE 0 - ((0 - n) \div d)

\* variant: the value is clamped to the 16-bit range before it is stored
toInt16Clamped(x) == Max(0 - 32768, Min(32767, x))

\* DataView.setInt16: the integer modulo 2^16, read as a signed value
toInt16(x) ==
  LET m == x % 65536 IN IF m >= 32768 THEN m - 65536 ELSE m

\* view.setInt16(offset, sample * 0x7fff, true) and the value it stores
pcmOf(s) == toInt16(truncate(s * PCM_SCALE, SampleUnit))

InitWav ==
  /\ sample \in (0 - MaxSampleUnits)..MaxSampleUnits
  /\ pcm = 0
  /\ wpc = "start"
  /\ TranscribeIdle
  /\ ChunkerIdle
  /\ OtherIdle
  /\ LabelIdle
  /\ StopIdle
  /\ WidgetIdle

\* the body of the inner loop of audioBufferToWav for one sample
WriteSample ==
  /\ wpc = "start"
  /\ pcm' = pcmOf(sample)
  /\ wpc' = "done"
  /\ UNCHANGED sample
  /\ UNCHANGED exceptWav

NextWav == WriteSample

SpecWav == InitWav /\ [][NextWav]_vars

\* C25: the stored 16-bit value is the sample scaled by 32767, and for a
\* sample outside [-1.0, 1.0] it is the nearest end of [-32768, 32767],
\* not the scaled value modulo 2^16.
C25_SampleClamped ==
  wpc = "done" =>
    LET scaled == truncate(sample * PCM_SCALE, SampleUnit)
    IN /\ (0 - SampleUnit <= sample /\ sample <= SampleUnit) => pcm = scaled
       /\ sample > SampleUnit => pcm = 32767
       /\ sample < 0 - SampleUnit => pcm = 0 - 32768

-----------------------------------------------------------------------------
(* Progress notification of transcribeAudio *)

\* the callback has been invoked once for each call made so far, with the
\* 0-based index of the chunk and the number of chunks; without a callback
\* nothing is notified
NotifiedOncePerCall ==
  IF onChunkStart
  THEN /\ Len(progress) = Len(requests)
       /\ \A n \in 1..Len(progress) :
            progress[n] = <<requests[n].chunk, Len(audioChunks)>>
       /\ \A n \in 1..Len(progress) : progress[n][1] = n - 1
  ELSE progress = <<>>

\* a step that invokes the callback finds every earlier call answered and
\* none in flight, and issues the call of the notified chunk itself
NotifiedBeforeCall ==
  progress' # progress =>
    /\ Len(progress') = Len(progress) + 1
    /\ inflight = 0
    /\ Len(responses) = Len(progress)
    /\ Len(requests) = Len(progress)
    /\ Len(requests') = Len(progress')
    /\ requests'[Len(requests')].chunk = progress'[Len(progress')][1]

\* C14: a supplied onChunkStart is invoked exactly once per dispatched chunk
\* with (i, audioChunks.length), i the 0-based chunk index, before that
\* chunk's call and after the previous chunk's response, and never for a
\* chunk whose call is not made.
C14_ProgressPerChunk == []NotifiedOncePerCall /\ [][NotifiedBeforeCall]_vars

C14_Witness ==
  /\ onChunkStart
  /\ pc = "failed"
  /\ Len(audioChunks) = 2
  /\ Len(responses) = 2
  /\ progress = <<<<0, 2>>, <<1, 2>>>>

-----------------------------------------------------------------------------
(* Two invocations of transcribeAudio side by side *)

\* the local variables an invocation declares before its loop
freshAccumulators ==
  [fullText |-> <<>>, allSegments |-> <<>>, segmentIdOffset |-> 0,
   timeOffset |-> 0]

\* the loop body after the await, on the accumulators acc
loopBody(m, chunk, index, acc, res) ==
  LET segs == acc.allSegments \o
                assemble(rawSegmentsOf(res), acc.segmentIdOffset,
                         acc.timeOffset, m = DIARIZE)
  IN [fullText |-> IF m = WHISPER THEN nextFullText(acc.fullText, index, res)
                   ELSE acc.fullText,
      allSegments |-> segs,
      segmentIdOffset |-> nextSegmentIdOffset(segs),
      timeOffset |-> nextTimeOffset(acc.timeOffset, chunk, res)]

\* return { text, segments }
returnValue(m, acc) ==
  [text |-> IF m = DIARIZE THEN joinTexts(acc.allSegments) ELSE acc.fullText,
   segments |-> acc.allSegments]

\* variant: the accumulators are module-level variables, an invocation
\* reads what the other one left there
sharedAccumulators(own, outer) == outer

\* the accumulators are let-variables of the function body: an invocation
\* reads its own
ownAccumulators(own, outer) == own

\* the request object the second invocation builds for chunk index
otherRequestFor(index) ==
  IF other.model = WHISPER
  THEN [chunk |-> index, model |-> WHISPER,
        file |-> other.audioChunks[index + 1].file,
        prompt |-> mixBasePromptAndTranscript(other.prompt,
                                              other.acc.fullText)]
  ELSE [chunk |-> index, model |-> DIARIZE,
        file |-> other.audioChunks[index + 1].file]

\* both invocations work on the chunks of one recording
PairChunks == <<[file |-> 0, duration |-> 3], [file |-> 1, duration |-> 1]>>

\* responses with at most one segment
PairResponses(m) == {r \in SegResponses(m) : Len(rawSegmentsOf(r)) <= 1}

OtherStart ==
  {[pc |-> "loop", model |-> m,
    prompt |-> IF m = WHISPER THEN Sentence(1) ELSE <<>>,
    audioChunks |-> PairChunks, i |-> 0, acc |-> freshAccumulators,
    requests |-> <<>>, responses |-> <<>>, seen |-> <<>>,
    result |-> NoResult] : m \in {WHISPER, DIARIZE}}

\* seen: for each call of the second invocation, how many calls the first
\* one had made and how many of them were in flight
OtherDispatch ==
  /\ other.pc = "loop"
  /\ other.i < Len(other.audioChunks)
  /\ other' = [other EXCEPT !.requests = Append(@, otherRequestFor(other.i)),
                            !.seen = Append(@, <<Len(requests), inflight>>),
                            !.pc = "await"]
  /\ UNCHANGED exceptOther

OtherRespond(res) ==
  /\ other.pc = "await"
  /\ LET outer == [fullText |-> fullText, allSegments |-> allSegments,
                   segmentIdOffset |-> segmentIdOffset,
                   timeOffset |-> timeOffset]
     IN other' = [other EXCEPT
                    !.acc = loopBody(other.model,
                                     other.audioChunks[other.i + 1], other.i,
                                     ownAccumulators(other.acc, outer), res),
                    !.responses = Append(@, res),
                    !.i = @ + 1,
                    !.pc = "loop"]
  /\ UNCHANGED exceptOther

OtherReject ==
  /\ other.pc = "await"
  /\ other' = [other EXCEPT !.responses = Append(@, Failure),
                            !.pc = "failed"]
  /\ UNCHANGED exceptOther

OtherReturn ==
  /\ other.pc = "loop"
  /\ other.i >= Len(other.audioChunks)
  /\ other' = [other EXCEPT !.result = returnValue(other.model, other.acc),
                            !.pc = "done"]
  /\ UNCHANGED exceptOther

InitPair ==
  /\ TranscribeStart({WHISPER, DIARIZE}, {Sentence(2)})
  /\ audioChunks = PairChunks
  /\ onChunkStart = FALSE
  /\ other \in OtherStart
  /\ ChunkerIdle
  /\ LabelIdle
  /\ StopIdle
  /\ WidgetIdle
  /\ WavIdle

NextPair ==
  \/ Dispatch
  \/ \E res \in PairResponses(model) : Respond(res)
  \/ Reject
  \/ Return
  \/ OtherDispatch
  \/ \E res \in PairResponses(other.model) : OtherRespond(res)
  \/ OtherReject
  \/ OtherReturn

SpecPair == InitPair /\ [][NextPair]_vars

\* what an invocation run alone on chunks cs accumulates from the first k
\* of the responses rs
RECURSIVE accumulatedAlone(_, _, _, _)
accumulatedAlone(m, cs, rs, k) ==
  IF k = 0 THEN freshAccumulators
  ELSE loopBody(m, cs[k], k - 1, accumulatedAlone(m, cs, rs, k - 1), rs[k])

resultAlone(m, cs, rs) == returnValue(m, accumulatedAlone(m, cs, rs, Len(rs)))

\* C15: two invocations whose network waits interleave in any order do not
\* interact: each returns the ids, timestamps and text it would return when
\* run alone on the same chunks and responses.
C15_NoInterference ==
  /\ pc = "done" => result = resultAlone(model, audioChunks, responses)
  /\ other.pc = "done" =>
       other.result =
         resultAlone(other.model, other.audioChunks, other.responses)

C15_Witness ==
  /\ pc = "done"
  /\ other.pc = "done"
  /\ other.seen = <<<<1, 1>>, <<2, 1>>>>
  /\ Len(result.segments) = 2
  /\ Len(other.result.segments) = 1

\* C16: in the diarization variant the request for chunk i carries no
\* prompt and is made of chunk i alone: two runs over the same chunks send
\* the same request for chunk i whatever responses they received for the
\* chunks before it.
C16_DiarizeIndependent ==
  /\ model = DIARIZE =>
       \A n \in 1..Len(requests) :
         /\ "prompt" \notin DOMAIN requests[n]
         /\ requests[n] = [chunk |-> n - 1, model |-> DIARIZE,
                           file |-> audioChunks[n].file]
  /\ (model = DIARIZE /\ other.model = DIARIZE
        /\ audioChunks = other.audioChunks) =>
       \A n \in 1..Min(Len(requests), Len(other.requests)) :
         requests[n] = other.requests[n]

C16_Witness ==
  /\ model = DIARIZE
  /\ other.model = DIARIZE
  /\ Len(requests) = 2
  /\ Len(other.requests) = 2
  /\ Len(rawSegmentsOf(responses[1])) = 1
  /\ Len(rawSegmentsOf(other.responses[1])) = 0
  /\ requests[2] = other.requests[2]

-----------------------------------------------------------------------------
(* Speaker tags of the diarization variant *)

\* the people heard in a recording; the service is never told who they are
Voices == {"P", "Q"}

\* the tags the service hands out within one request, in this order
ServiceTags == <<"A", "B">>

TurnsPerChunk == 2

\* the tag of turn j of a request whose turns are spoken by voices: every
\* request is answered on its own, its speakers are tagged in the order in
\* which they are first heard in it
tagOf(voices, j) ==
  LET first == CHOOSE f \in 1..j :
                 /\ voices[f] = voices[j]
                 /\ \A g \in 1..(f - 1) : voices[g] # voices[j]
  IN ServiceTags[Cardinality({voices[a] : a \in 1..first})]

\* diarized_json responses; voice records who really spoke and is not part
\* of what the code reads
DiarizedResponses ==
  {[segments |-> [j \in 1..Len(voices) |->
                    [start |-> j - 1, end |-> j, text |-> <<"a">>,
                     speaker |-> tagOf(voices, j), voice |-> voices[j]]],
    duration |-> Len(voices)] :
     voices \in UNION {[1..n -> Voices] : n \in 1..TurnsPerChunk}}

InitSpeakers ==
  /\ TranscribeStart({DIARIZE}, {<<>>})
  /\ ChunkerIdle
  /\ ExtrasIdle

NextSpeakers ==
  \/ Dispatch
  \/ \E res \in DiarizedResponses : Respond(res)
  \/ Reject
  \/ Return

SpecSpeakers == InitSpeakers /\ [][NextSpeakers]_vars

\* the raw segments of the first k responses, in order
RECURSIVE rawSegmentsUpTo(_)
rawSegmentsUpTo(k) ==
  IF k = 0 THEN <<>>
  ELSE rawSegmentsUpTo(k - 1) \o rawSegmentsOf(responses[k])

\* C17: across the segments of one diarization result, segments spoken by
\* the same person carry the same raw speaker token, in whichever chunk they
\* lie.
C17_SpeakerConsistent ==
  LET raws == rawSegmentsUpTo(Len(responses))
  IN /\ Len(allSegments) = Len(raws)
     /\ \A a, b \in 1..Len(allSegments) :
          raws[a].voice = raws[b].voice =>
            allSegments[a].speaker = allSegments[b].speaker

-----------------------------------------------------------------------------
(* summarizeTranscription.ts, MeetingWidget.ts: formatSpeakerLabel *)
(* A JavaScript number that holds an integer is the sequence of its       *)
(* decimal digits, most significant first, without leading zeros.         *)

DigitChars == <<"0", "1", "2", "3", "4", "5", "6", "7", "8", "9">>
UpperLetters ==
  <<"A", "B", "C", "D", "E", "F", "G", "H", "I", "J", "K", "L", "M",
    "N", "O", "P", "Q", "R", "S", "T", "U", "V", "W", "X", "Y", "Z">>
LowerLetters ==
  <<"a", "b", "c", "d", "e", "f", "g", "h", "i", "j", "k", "l", "m",
    "n", "o", "p", "q", "r", "s", "t", "u", "v", "w", "x", "y", "z">>

Range(seq) == {seq[k] : k \in 1..Len(seq)}

IndexIn(seq, c) == CHOOSE k \in 1..Len(seq) : seq[k] = c

\* toUpperCase of one character
toUpperCase(c) ==
  IF c \in Range(LowerLetters) THEN UpperLetters[IndexIn(LowerLetters, c)]
  ELSE c

\* charCodeAt(0) of an upper-case ASCII letter
charCodeOfUpper(c) == 64 + IndexIn(UpperLetters, c)

\* String(n) of a small non-negative integer
RECURSIVE intToChars(_)
intToChars(n) ==
  IF n < 10 THEN <<DigitChars[n + 1]>>
  ELSE intToChars(n \div 10) \o <<DigitChars[(n % 10) + 1]>>

\* 2^53, from where on not every integer is a double
TwoTo53 == <<9, 0, 0, 7, 1, 9, 9, 2, 5, 4, 7, 4, 0, 9, 9, 2>>

\* digits without leading zeros
RECURSIVE stripZeros(_)
stripZeros(ds) ==
  IF Len(ds) > 1 /\ ds[1] = 0 THEN stripZeros(Tail(ds)) ELSE ds

\* a <= b on digit sequences without leading zeros
RECURSIVE lessOrEqual(_, _)
lessOrEqual(a, b) ==
  IF Len(a) # Len(b) THEN Len(a) < Len(b)
  ELSE IF a = <<>> THEN TRUE
  ELSE IF a[1] # b[1] THEN a[1] < b[1]
  ELSE lessOrEqual(Tail(a), Tail(b))

\* ds + 1, exactly
RECURSIVE increment(_)
increment(ds) ==
  IF ds = <<>> THEN <<1>>
  ELSE IF ds[Len(ds)] < 9
       THEN SubSeq(ds, 1, Len(ds) - 1) \o <<ds[Len(ds)] + 1>>
       ELSE increment(SubSeq(ds, 1, Len(ds) - 1)) \o <<0>>

\* ds - 1, exactly, for ds > 0
RECURSIVE decrement(_)
decrement(ds) ==
  IF ds[Len(ds)] > 0
  THEN stripZeros(SubSeq(ds, 1, Len(ds) - 1) \o <<ds[Len(ds)] - 1>>)
  ELSE stripZeros(decrement(SubSeq(ds, 1, Len(ds) - 1)) \o <<9>>)

\* ds modulo 4
modFour(ds) ==
  (IF Len(ds) = 1 THEN ds[1] ELSE 10 * ds[Len(ds) - 1] + ds[Len(ds)]) % 4

\* the double nearest to the integer ds, ties to the even mantissa; for
\* integers below 2^54, where the doubles above 2^53 are the even integers
toDouble(ds) ==
  IF lessOrEqual(ds, TwoTo53) \/ modFour(ds) % 2 = 0 THEN ds
  ELSE IF modFour(ds) = 1 THEN decrement(ds)
  ELSE increment(ds)

\* parseInt(digits, 10) of a string of ASCII digits
parseInt(chars) ==
  toDouble(stripZeros([k \in 1..Len(chars) |->
                         IndexIn(DigitChars, chars[k]) - 1]))

\* n + 1 in double arithmetic
plusOne(n) == toDouble(increment(n))

\* String(n) of a double that holds an integer below 10^21
numberToChars(n) == [k \in 1..Len(n) |-> DigitChars[n[k] + 1]]

SPEAKER_PREFIX == <<"s", "p", "e", "a", "k", "e", "r", "_">>
SPEAKER_LABEL == <<"S", "p", "e", "a", "k", "e", "r", " ">>

\* ASCII case folding of the i flag
toLowerCase(c) ==
  IF c \in Range(UpperLetters) THEN LowerLetters[IndexIn(UpperLetters, c)]
  ELSE c

\* raw.match(/^speaker_(\d+)$/i): the captured digits, or <<>> for no match
numMatch(raw) ==
  IF /\ Len(raw) > Len(SPEAKER_PREFIX)
     /\ \A k \in 1..Len(SPEAKER_PREFIX) :
          toLowerCase(raw[k]) = SPEAKER_PREFIX[k]
     /\ \A k \in (Len(SPEAKER_PREFIX) + 1)..Len(raw) :
          raw[k] \in Range(DigitChars)
  THEN SubSeq(raw, Len(SPEAKER_PREFIX) + 1, Len(raw))
  ELSE <<>>

\* raw.match(/^([A-Z])$/i)
letterMatch(raw) ==
  Len(raw) = 1 /\ toLowerCase(raw[1]) \in Range(LowerLetters)

formatSpeakerLabel(raw) ==
  IF numMatch(raw) # <<>>
  THEN SPEAKER_LABEL \o numberToChars(plusOne(parseInt(numMatch(raw))))
  ELSE IF letterMatch(raw)
  THEN SPEAKER_LABEL \o
         intToChars(charCodeOfUpper(toUpperCase(raw[1])) - 64)
  ELSE raw

\* the tags formatSpeakerLabel is applied to: speaker_<digits> in three
\* spellings of the prefix with up to MaxDigits digits (none included),
\* numbers around 2^53, single characters, and other strings
DigitStrings == UNION {[1..n -> Range(DigitChars)] : n \in 0..MaxDigits}

SpeakerPrefixes ==
  {SPEAKER_PREFIX,
   <<"S", "P", "E", "A", "K", "E", "R", "_">>,
   <<"S", "p", "e", "a", "k", "e", "r", "_">>}

LongDigitStrings ==
  {<<"9", "0", "0", "7", "1", "9", "9", "2", "5", "4", "7", "4", "0", "9",
     "9", d>> : d \in {"0", "1", "2", "3", "4", "5"}}

OtherTags ==
  {<<>>,
   <<"n", "a", "r", "r", "a", "t", "o", "r">>,
   <<"A", "B">>,
   <<"s", "p", "e", "a", "k", "e", "r", " ", "1">>,
   <<"s", "p", "e", "a", "k", "e", "r", "_", "1", "a">>,
   <<"s", "p", "e", "a", "k", "e", "r", "_", "-", "1">>,
   <<"x", "s", "p", "e", "a", "k", "e", "r", "_", "1">>,
   <<"s", "p", "e", "a", "k", "e", "r", "_", "1", "\n">>}

SingleCharacters ==
  Range(UpperLetters) \cup Range(LowerLetters) \cup {"@", "7", "_", " "}

Tags ==
  {p \o ds : p \in SpeakerPrefixes, ds \in DigitStrings}
  \cup {SPEAKER_PREFIX \o ds : ds \in LongDigitStrings}
  \cup {<<c>> : c \in SingleCharacters}
  \cup OtherTags

InitLabel ==
  /\ speakerTag \in Tags
  /\ speakerLabel = <<>>
  /\ lpc = "start"
  /\ TranscribeIdle
  /\ ChunkerIdle
  /\ OtherIdle
  /\ StopIdle
  /\ WidgetIdle
  /\ WavIdle

FormatLabel ==
  /\ lpc = "start"
  /\ speakerLabel' = formatSpeakerLabel(speakerTag)
  /\ lpc' = "done"
  /\ UNCHANGED speakerTag
  /\ UNCHANGED exceptLabel

NextLabel == FormatLabel

SpecLabel == InitLabel /\ [][NextLabel]_vars

\* the label the tag stands for: N + 1 for speaker_<N>, the position in the
\* alphabet for a single letter, the tag itself otherwise
labelOf(tag) ==
  IF numMatch(tag) # <<>>
  THEN LET N == stripZeros([k \in 1..Len(numMatch(tag)) |->
                              IndexIn(DigitChars, numMatch(tag)[k]) - 1])
       IN SPEAKER_LABEL \o numberToChars(increment(N))
  ELSE IF Len(tag) = 1 /\ toUpperCase(tag[1]) \in Range(UpperLetters)
  THEN SPEAKER_LABEL \o intToChars(IndexIn(UpperLetters, toUpperCase(tag[1])))
  ELSE tag

\* C18: formatSpeakerLabel returns "Speaker <N+1>" for a tag speaker_<N>,
\* "Speaker <position in the alphabet>" for a single letter and every other
\* tag unchanged; it returns a label for every input string.
C18_SpeakerLabel ==
  lpc = "done" => speakerLabel = labelOf(speakerTag)

\* the labels are as stated for every tag whose number stays below 2^53
LabelRightBelowTwoTo53 ==
  (lpc = "done" /\ speakerTag \notin
     {SPEAKER_PREFIX \o ds : ds \in LongDigitStrings}) =>
    speakerLabel = labelOf(speakerTag)

-----------------------------------------------------------------------------
(* MeetingAI.stopMeetingRecording and MeetingAI.transcribeAudio *)

\* the plugin's chunk limit (25 MB in the plugin), scaled to a WAV header
\* and MaxChunkSamples samples so that recordings on both sides of it can be
\* enumerated
MAX_CHUNK_SIZE == WAV_HEADER_BYTES + BYTES_PER_SAMPLE * MaxChunkSamples

\* resolveAttachmentPath(startedAt)
AttachmentPath == "meeting.webm"

\* the properties of the options object handed to transcribeAudio
optionsPassed == {"prompt", "audioFiles", "onChunkStart"}

\* audioFile?.path ?? null
pathOrNull(file) == IF "path" \in DOMAIN file THEN file.path ELSE Null

\* e?.message ?? String(e) of what the try block threw
errorMessage ==
  IF pc = "failed" THEN "TypeError"
  ELSE IF steps = <<"decodeAudioData">> THEN "EncodingError"
  ELSE "NotSupportedError"

InitStop ==
  /\ recorder \in {"inactive", "recording", "paused"}
  /\ settings \in [saveAudio : BOOLEAN]
  /\ blob \in {InputBytes(n) :
                 n \in {0} \cup ((MAX_CHUNK_SIZE - 1)..(MAX_CHUNK_SIZE + 2))}
  /\ vault = {}
  /\ audioFile = NoFile
  /\ spc = "start"
  /\ outcome = NoOutcome
  /\ TranscribeIdle
  /\ ChunkerIdle
  /\ OtherIdle
  /\ LabelIdle
  /\ WidgetIdle
  /\ WavIdle

\* if (this.audioRecorder.state === 'inactive') return null
ReturnNull ==
  /\ spc = "start"
  /\ recorder = "inactive"
  /\ outcome' = [value |-> Null]
  /\ spc' = "returned"
  /\ UNCHANGED <<recorder, settings, blob, vault, audioFile>>
  /\ UNCHANGED <<tvars, cvars, exceptStop>>

\* audioRecorder.stop() resolves with the blob
StopRecorder ==
  /\ spc = "start"
  /\ recorder # "inactive"
  /\ blob # <<>>
  /\ recorder' = "inactive"
  /\ spc' = "stopped"
  /\ UNCHANGED <<settings, blob, vault, audioFile, outcome>>
  /\ UNCHANGED <<tvars, cvars, exceptStop>>

\* audioRecorder.stop() rejects for an empty blob: the call rejects
StopRecorderRejects ==
  /\ spc = "start"
  /\ recorder # "inactive"
  /\ blob = <<>>
  /\ recorder' = "inactive"
  /\ spc' = "rejected"
  /\ UNCHANGED <<settings, blob, vault, audioFile, outcome>>
  /\ UNCHANGED <<tvars, cvars, exceptStop>>

\* if (this.settings.saveAudio) audioFile = await createBinary(...)
SaveAudio ==
  /\ spc = "stopped"
  /\ IF settings.saveAudio
     THEN /\ vault' = vault \cup {AttachmentPath}
          /\ audioFile' = [path |-> AttachmentPath]
     ELSE UNCHANGED <<vault, audioFile>>
  /\ spc' = "saved"
  /\ UNCHANGED <<recorder, settings, blob, outcome>>
  /\ UNCHANGED <<tvars, cvars, exceptStop>>

\* createBinary rejects, outside the try block: the call rejects
SaveAudioRejects ==
  /\ spc = "stopped"
  /\ settings.saveAudio
  /\ spc' = "rejected"
  /\ UNCHANGED <<recorder, settings, blob, vault, audioFile, outcome>>
  /\ UNCHANGED <<tvars, cvars, exceptStop>>

\* MeetingAI.transcribeAudio({ buffer, audioFile }): the recording goes to
\* audioDataToChunkedFiles(audioData, this.MAX_CHUNK_SIZE)
BeginTranscribe ==
  /\ spc = "saved"
  /\ cpc = "idle"
  /\ audioData' = blob
  /\ maxSize' = MAX_CHUNK_SIZE
  /\ cpc' = "start"
  /\ spc' = "transcribing"
  /\ UNCHANGED <<fileExtension, monoBuffer, ci, chunks, steps>>
  /\ UNCHANGED <<recorder, settings, blob, vault, audioFile, outcome>>
  /\ UNCHANGED <<tvars, exceptStop>>

\* transcribeAudio(this.client, { prompt, audioFiles, onChunkStart }): the
\* function reads audioChunks, which the caller does not pass, so
\* audioChunks.entries() throws a TypeError before any call is made
InvokeTranscribeAudio ==
  /\ spc = "transcribing"
  /\ cpc = "done"
  /\ pc = "idle"
  /\ IF "audioChunks" \in optionsPassed
     THEN /\ audioChunks' = chunks
          /\ pc' = "loop"
     ELSE /\ pc' = "failed"
          /\ UNCHANGED audioChunks
  /\ onChunkStart' = ("onChunkStart" \in optionsPassed)
  /\ UNCHANGED <<model, prompt, i, fullText, allSegments, segmentIdOffset,
                 timeOffset, requests, responses, inflight, progress,
                 result>>
  /\ UNCHANGED <<cvars, svars, exceptStop>>

\* catch (e): return { ok: false, error, audioFilePath }
CatchFailure ==
  /\ spc = "transcribing"
  /\ cpc = "failed" \/ pc = "failed"
  /\ outcome' = [ok |-> FALSE, error |-> errorMessage,
                  audioFilePath |-> pathOrNull(audioFile)]
  /\ spc' = "returned"
  /\ UNCHANGED <<recorder, settings, blob, vault, audioFile>>
  /\ UNCHANGED <<tvars, cvars, exceptStop>>

NextStop ==
  \/ ReturnNull
  \/ StopRecorder
  \/ StopRecorderRejects
  \/ SaveAudio
  \/ SaveAudioRejects
  \/ BeginTranscribe
  \/ FastPath
  \/ \E sourceBuffer \in DecodedBuffers : Decode(sourceBuffer)
  \/ DecodeFail
  \/ ChunkStep
  \/ ReturnChunks
  \/ InvokeTranscribeAudio
  \/ CatchFailure

SpecStop == InitStop /\ [][NextStop]_vars

\* C13: when the input cannot be decoded, audioDataToChunkedFiles fails as
\* a whole and has produced no chunk, and no transcription call is made for
\* that audio: the pipeline ends in a failure.
C13_DecodeFailureFatal ==
  steps = <<"decodeAudioData">> =>
    /\ cpc = "failed"
    /\ chunks = <<>>
    /\ requests = <<>>
    /\ pc = "idle"
    /\ spc = "returned" => ~outcome.ok

C13_Witness ==
  /\ steps = <<"decodeAudioData">>
  /\ Len(audioData) > maxSize
  /\ spc = "returned"
  /\ outcome.error = "EncodingError"

failed(o) == "ok" \in DOMAIN o /\ ~o.ok

\* C19: the recording is in the vault before the transcription of it
\* begins, and a failure returned by stopMeetingRecording carries the path
\* of the saved recording, not null.
C19_AudioSavedFirst ==
  /\ (cpc # "idle" \/ requests # <<>>) =>
       /\ audioFile # NoFile
       /\ audioFile.path \in vault
  /\ failed(outcome) =>
       /\ outcome.audioFilePath # Null
       /\ outcome.audioFilePath \in vault

\* ====================================================================
\* MeetingWidget: the error state of one note across widget instances
\* ====================================================================

Messages == {"m1", "m2"}

AudioPaths == {AttachmentPath}

\* { message, audioFilePath }: the value of an errorCache entry and of the
\* JSON of the error block
ErrorEntries ==
  [message : Messages, audioFilePath : AudioPaths \cup {Null}]

\* the WidgetState values told apart here
stateOf(status) == [status |-> status]

errorState(entry) ==
  [status |-> "error", message |-> entry.message,
   audioFilePath |-> entry.audioFilePath]

\* render(): the buttons are created anew
rendered ==
  /\ trashBtn' = NewButton
  /\ clicks' = <<>>

\* onload: the state restored from the static caches
onloadState(results, cachedError) ==
  IF results THEN stateOf("done")
  ELSE IF cachedError # NoEntry THEN errorState(cachedError)
  ELSE stateOf("idle")

\* new MeetingWidget(el, this, ctx); ctx.addChild(widget): the instance
\* before attached, if any, keeps its pending handler and its pending
\* loadDataFromFile
CreateWidget ==
  LET h == IF widget = NoWidget THEN NoHandler ELSE widget.pending
      l == IF widget = NoWidget THEN FALSE ELSE ~widget.loaded
  IN /\ created < MaxWidgets
     /\ h # NoHandler => detached.handler = NoHandler
     /\ l => ~detached.load
     /\ detached' = [handler |-> IF h # NoHandler THEN h
                                 ELSE detached.handler,
                     load |-> detached.load \/ l]
     /\ widget' = [state |-> onloadState(cachedResults # <<>>, errorCache),
                   results |-> cachedResults,
                   pending |-> NoHandler,
                   loaded |-> FALSE]
     /\ created' = created + 1
     /\ rendered
     /\ UNCHANGED <<errorCache, cachedResults, noteFile, ops, entered,
                    notesContent>>
     /\ UNCHANGED exceptWidget

\* loadDataFromFile: the one result restored from the summary, transcript
\* and segments blocks
restoredResults(content) == <<[segments |-> content.segments]>>

\* loadDataFromFile after its await: what it does to the static caches
loadCaches(content) ==
  /\ cachedResults' = IF content.results THEN restoredResults(content)
                      ELSE cachedResults
  /\ errorCache' = IF content.results THEN NoEntry
                   ELSE IF content.error # NoEntry THEN content.error
                   ELSE errorCache

\* loadDataFromFile after its await: the state of the instance
loadState(content, state) ==
  IF content.results THEN stateOf("done")
  ELSE IF content.error # NoEntry THEN errorState(content.error)
  ELSE state

\* loadDataFromFile of the attached instance
Load ==
  /\ widget # NoWidget
  /\ ~widget.loaded
  /\ loadCaches(noteFile)
  /\ widget' = [widget EXCEPT !.state = loadState(noteFile, @),
                              !.results = IF noteFile.results
                                          THEN restoredResults(noteFile)
                                          ELSE @,
                              !.loaded = TRUE]
  /\ IF noteFile.results \/ noteFile.error # NoEntry THEN rendered
     ELSE UNCHANGED <<trashBtn, clicks>>
  /\ UNCHANGED <<noteFile, detached, ops, created, entered, notesContent>>
  /\ UNCHANGED exceptWidget

\* loadDataFromFile of an instance that is no longer attached
LoadDetached ==
  /\ detached.load
  /\ loadCaches(noteFile)
  /\ detached' = [detached EXCEPT !.load = FALSE]
  /\ UNCHANGED <<noteFile, widget, ops, created, entered, notesContent,
                 trashBtn, clicks>>
  /\ UNCHANGED exceptWidget

\* the call of saveErrorToFile or clearErrorFromFile that setState makes
fileOpOf(newState) ==
  IF newState.status = "error"
  THEN <<[kind |-> "saveError", phase |-> "read",
          entry |-> [message |-> newState.message,
                     audioFilePath |-> newState.audioFilePath]]>>
  ELSE IF newState.status \in {"done", "idle"}
  THEN <<[kind |-> "clearError", phase |-> "read"]>>
  ELSE <<>>

\* setState without this.state = newState: the error cache and the file
setStateCaches(newState) ==
  /\ Len(ops) + Len(fileOpOf(newState)) <= MaxOps
  /\ errorCache' =
       IF newState.status = "error"
       THEN [message |-> newState.message,
             audioFilePath |-> newState.audioFilePath]
       ELSE IF newState.status \in {"done", "idle"} THEN NoEntry
       ELSE errorCache
  /\ ops' = ops \o fileOpOf(newState)
  /\ entered' =
       IF newState.status = "error"
       THEN [message |-> newState.message,
             audioFilePath |-> newState.audioFilePath]
       ELSE IF newState.status \in {"done", "idle"} THEN NoEntry
       ELSE entered

\* setState of the attached instance; the handler that called it goes on
\* as `handler` says
setState(newState, handler) ==
  /\ widget' = [widget EXCEPT !.state = newState,
                              !.pending = handler]
  /\ setStateCaches(newState)
  /\ rendered
  /\ UNCHANGED <<cachedResults, noteFile, detached, created, notesContent>>
  /\ UNCHANGED exceptWidget

\* onStartClick (the record button, and "new recording" of renderError)
\* when startMeetingRecording resolves
StartClick ==
  /\ widget # NoWidget
  /\ widget.state.status \in {"idle", "error"}
  /\ widget.pending = NoHandler
  /\ setState(stateOf("recording"), NoHandler)

\* onStartClick when startMeetingRecording rejects
StartClickFails ==
  /\ widget # NoWidget
  /\ widget.state.status \in {"idle", "error"}
  /\ widget.pending = NoHandler
  /\ IF widget.results # <<>>
     THEN /\ widget' = [widget EXCEPT !.state = stateOf("done")]
          /\ rendered
          /\ UNCHANGED <<errorCache, cachedResults, noteFile, detached,
                         ops, created, entered, notesContent>>
          /\ UNCHANGED exceptWidget
     ELSE setState(stateOf("idle"), NoHandler)

\* onStopClick up to await this.plugin.stopMeetingRecording()
StopClick ==
  /\ widget # NoWidget
  /\ widget.state.status = "recording"
  /\ widget.pending = NoHandler
  /\ setState(stateOf("processing"), [kind |-> "stop"])

\* the failures onStopClick turns into an error state: result.ok false
\* (with result.audioFilePath) or an exception (audioFilePath null)
StopFailures == ErrorEntries

\* onStopClick after the await, result.ok false or an exception
StopFails(e) ==
  /\ widget # NoWidget
  /\ widget.pending = [kind |-> "stop"]
  /\ setState(errorState(e), NoHandler)

\* onStopClick after the await, result null
StopReturnsNull ==
  /\ widget # NoWidget
  /\ widget.pending = [kind |-> "stop"]
  /\ setState(stateOf("idle"), NoHandler)

\* onRetryClick(audioFilePath) up to await retryFromAudioFile: renderError
\* shows the button only if (audioFilePath)
RetryClick ==
  /\ widget # NoWidget
  /\ widget.state.status = "error"
  /\ widget.state.audioFilePath # Null
  /\ widget.pending = NoHandler
  /\ setState(stateOf("processing"),
              [kind |-> "retry", audioFilePath |-> widget.state.audioFilePath])

\* onResummarizeClick when a result has an audioFilePath and the file
\* exists: the re-process button of the tab bar runs onRetryClick on it
ReprocessClick(audioFilePath) ==
  /\ widget # NoWidget
  /\ widget.state.status \in {"idle", "done"}
  /\ widget.results # <<>>
  /\ widget.pending = NoHandler
  /\ setState(stateOf("processing"),
              [kind |-> "retry", audioFilePath |-> audioFilePath])

\* a variant of retryFailureState that does not carry the path on
retryFailureStateNoPath(m, audioFilePath) ==
  errorState([message |-> m, audioFilePath |-> Null])

\* onRetryClick: { status: 'error', message, audioFilePath } with the
\* audioFilePath the handler was called with
retryFailureState(m, audioFilePath) ==
  errorState([message |-> m, audioFilePath |-> audioFilePath])

\* onRetryClick after the await, result.ok false or an exception
RetryFails(m) ==
  /\ widget # NoWidget
  /\ widget.pending # NoHandler
  /\ widget.pending.kind = "retry"
  /\ setState(retryFailureState(m, widget.pending.audioFilePath),
              NoHandler)

\* the error states the pending handler of a detached instance can set
failuresOf(handler) ==
  IF handler.kind = "stop" THEN StopFailures
  ELSE IF handler.kind = "retry"
  THEN {[message |-> m, audioFilePath |-> handler.audioFilePath] :
          m \in Messages}
  ELSE {}

\* onStopClick or onRetryClick of an instance that is no longer attached,
\* after the await: setState acts on the shared cache and on the file
DetachedFails(e) ==
  /\ e \in failuresOf(detached.handler)
  /\ setStateCaches(errorState(e))
  /\ detached' = [detached EXCEPT !.handler = NoHandler]
  /\ UNCHANGED <<cachedResults, noteFile, widget, created, notesContent,
                 trashBtn, clicks>>
  /\ UNCHANGED exceptWidget

\* the calls under way without the k-th
withoutOp(k) == SubSeq(ops, 1, k - 1) \o SubSeq(ops, k + 1, Len(ops))

\* replaceBlock(content, ERROR_START, ERROR_END, errorData)
replaceErrorBlock(content, entry) == [content EXCEPT !.error = entry]

\* clearErrorFromFile: the content without the error block
removeErrorBlock(content) == [content EXCEPT !.error = NoEntry]

\* this.results.flatMap((r) => r.segments ?? [])
RECURSIVE flatSegments(_)
flatSegments(rs) ==
  IF rs = <<>> THEN <<>>
  ELSE flatSegments(SubSeq(rs, 1, Len(rs) - 1)) \o rs[Len(rs)].segments

\* saveResultsToFile: the summary and transcript blocks are written, the
\* segments block only if (allSegments.length > 0)
replaceResultBlocks(content, rs) ==
  [content EXCEPT !.results = TRUE,
                  !.segments = IF flatSegments(rs) # <<>>
                               THEN flatSegments(rs) ELSE @]

\* the content a save or clear call computes from the content it read; the
\* calls that save results and notes read this.results and
\* this.notesContent after their await
newContent(op, content) ==
  IF op.kind = "saveError" THEN replaceErrorBlock(content, op.entry)
  ELSE IF op.kind = "clearError" THEN removeErrorBlock(content)
  ELSE IF op.kind = "saveResults"
  THEN replaceResultBlocks(content, widget.results)
  ELSE IF op.kind = "saveNotes"
  THEN [content EXCEPT !.notes = notesContent]
  ELSE EmptyNote

\* the save and clear calls: await vault.read(file) and the new content
\* computed from what was read; clearErrorFromFile returns when there is
\* no error block
FileOpRead(k) ==
  /\ k \in 1..Len(ops)
  /\ ops[k].phase = "read"
  /\ ops' =
       IF ops[k].kind = "clearError" /\ noteFile.error = NoEntry
       THEN withoutOp(k)
       ELSE [ops EXCEPT ![k] =
               [kind |-> ops[k].kind, phase |-> "modify",
                content |-> newContent(ops[k], noteFile)]]
  /\ UNCHANGED <<errorCache, cachedResults, noteFile, widget, detached,
                 created, entered, notesContent, trashBtn, clicks>>
  /\ UNCHANGED exceptWidget

\* saveErrorToFile / clearErrorFromFile: await vault.modify(file, content)
FileOpModify(k) ==
  /\ k \in 1..Len(ops)
  /\ ops[k].phase = "modify"
  /\ noteFile' = ops[k].content
  /\ ops' = withoutOp(k)
  /\ UNCHANGED <<errorCache, cachedResults, widget, detached, created,
                 entered, notesContent, trashBtn, clicks>>
  /\ UNCHANGED exceptWidget

\* the note files an earlier session may have left: with or without an
\* error block, with or without results (and then with their segments)
NoteFiles ==
  {[error |-> e, results |-> r,
    segments |-> IF r THEN <<0, 1>> ELSE <<>>, notes |-> ""] :
     e \in ErrorEntries \cup {NoEntry}, r \in BOOLEAN}

MaxResults == 2

\* the results a transcription can come back with: segments with the ids
\* 0..n-1, or none
ResultEntries == {[segments |-> <<>>], [segments |-> <<0, 1>>]}

\* addResult: the result is pushed and cached, the state set without
\* setState, saveResultsToFile started
addResult(r) ==
  /\ Len(widget.results) < MaxResults
  /\ Len(ops) < MaxOps
  /\ widget' = [widget EXCEPT !.results = Append(@, r),
                              !.state = stateOf("done"),
                              !.pending = NoHandler]
  /\ cachedResults' = Append(widget.results, r)
  /\ rendered
  /\ ops' = Append(ops, [kind |-> "saveResults", phase |-> "read"])
  /\ UNCHANGED <<errorCache, noteFile, detached, created, entered,
                 notesContent>>
  /\ UNCHANGED exceptWidget

\* onStopClick after the await, result.ok
StopSucceeds(r) ==
  /\ widget # NoWidget
  /\ widget.pending = [kind |-> "stop"]
  /\ addResult(r)

\* onRetryClick after the await, result.ok
RetrySucceeds(r) ==
  /\ widget # NoWidget
  /\ widget.pending # NoHandler
  /\ widget.pending.kind = "retry"
  /\ addResult(r)

NotesTexts == {"n1", "n2"}

\* the notes textarea changes and the debounced saveNotesToFile runs
EditNotes(text) ==
  /\ widget # NoWidget
  /\ Len(ops) < MaxOps
  /\ notesContent' = text
  /\ ops' = Append(ops, [kind |-> "saveNotes", phase |-> "read"])
  /\ UNCHANGED <<errorCache, cachedResults, noteFile, widget, detached,
                 created, entered, trashBtn, clicks>>
  /\ UNCHANGED exceptWidget

\* the attached instance after onload and loadDataFromFile on content
loadedWidget(content) ==
  [state |-> loadState(content, stateOf("idle")),
   results |-> IF content.results THEN restoredResults(content) ELSE <<>>,
   pending |-> NoHandler,
   loaded |-> TRUE]

\* one widget, created and loaded after a start of Obsidian
InitLoaded ==
  /\ noteFile \in NoteFiles
  /\ widget = loadedWidget(noteFile)
  /\ cachedResults = widget.results
  /\ errorCache = IF noteFile.results THEN NoEntry ELSE noteFile.error
  /\ detached = [handler |-> NoHandler, load |-> FALSE]
  /\ ops = <<>>
  /\ created = 1
  /\ entered = NoEntry
  /\ notesContent = ""
  /\ trashBtn = NewButton
  /\ clicks = <<>>
  /\ TranscribeIdle
  /\ ChunkerIdle
  /\ OtherIdle
  /\ LabelIdle
  /\ StopIdle
  /\ WavIdle

\* recordings and notes on the one widget
NextResults ==
  \/ StartClick
  \/ StopClick
  \/ \E e \in StopFailures : StopFails(e)
  \/ \E r \in ResultEntries : StopSucceeds(r)
  \/ \E text \in NotesTexts : EditNotes(text)
  \/ \E k \in 1..MaxOps : FileOpRead(k)
  \/ \E k \in 1..MaxOps : FileOpModify(k)

SpecResults == InitLoaded /\ [][NextResults]_vars

\* retries and re-transcriptions on the one widget
NextRetry ==
  \/ RetryClick
  \/ \E a \in AudioPaths : ReprocessClick(a)
  \/ \E m \in Messages : RetryFails(m)
  \/ \E r \in ResultEntries : RetrySucceeds(r)
  \/ \E k \in 1..MaxOps : FileOpRead(k)
  \/ \E k \in 1..MaxOps : FileOpModify(k)

SpecRetry == InitLoaded /\ [][NextRetry]_vars

MaxClicks == 4

\* a variant of inConfirmState that takes every button as confirming
inConfirmStateAlways(btn) == TRUE

\* trashBtn.classList.contains('mm-tab-confirm-active')
inConfirmState(btn) == btn.confirmActive

\* the states whose rendering has a trash button: renderIdle when not
\* recording, and renderTabs of renderDone
hasTrashButton ==
  /\ widget # NoWidget
  /\ widget.state.status \in {"idle", "done"}

\* deleteAllMeetingData up to its await: the data in memory and the static
\* caches are cleared, clearAllDataFromFile started
deleteAllMeetingData ==
  /\ Len(ops) < MaxOps
  /\ widget' = [widget EXCEPT !.results = <<>>]
  /\ notesContent' = ""
  /\ cachedResults' = <<>>
  /\ errorCache' = NoEntry
  /\ ops' = Append(ops, [kind |-> "clearAll", phase |-> "read"])

\* the click handler of the trash button: a button in the confirm state
\* clears its timer and deletes, any other switches to the confirm state
\* and starts the timer
TrashClick ==
  /\ hasTrashButton
  /\ Len(clicks) < MaxClicks
  /\ clicks' = Append(clicks, "click")
  /\ IF inConfirmState(trashBtn)
     THEN /\ trashBtn' = [trashBtn EXCEPT !.confirmTimeout = FALSE]
          /\ deleteAllMeetingData
     ELSE /\ trashBtn' = [confirmActive |-> TRUE, confirmTimeout |-> TRUE]
          /\ UNCHANGED <<errorCache, cachedResults, widget, ops,
                         notesContent>>
  /\ UNCHANGED <<noteFile, detached, created, entered>>
  /\ UNCHANGED exceptWidget

\* the timer of the trash button fires after 3000 ms
TrashRevert ==
  /\ hasTrashButton
  /\ trashBtn.confirmTimeout
  /\ Len(clicks) < MaxClicks
  /\ trashBtn' = NewButton
  /\ clicks' = Append(clicks, "revert")
  /\ UNCHANGED <<errorCache, cachedResults, noteFile, widget, detached, ops,
                 created, entered, notesContent>>
  /\ UNCHANGED exceptWidget

\* a click on a tab of the tab bar, which renderDone draws, and renderIdle
\* when there are results: this.activeTab = tab.id; this.render()
TabClick ==
  /\ widget # NoWidget
  /\ \/ widget.state.status = "done"
     \/ widget.state.status = "idle" /\ widget.results # <<>>
  /\ rendered
  /\ UNCHANGED <<errorCache, cachedResults, noteFile, widget, detached, ops,
                 created, entered, notesContent>>
  /\ UNCHANGED exceptWidget

\* the trash button and the tabs of the one widget
NextTrash ==
  \/ TrashClick
  \/ TrashRevert
  \/ TabClick
  \/ \E k \in 1..MaxOps : FileOpRead(k)
  \/ \E k \in 1..MaxOps : FileOpModify(k)

SpecTrash == InitLoaded /\ [][NextTrash]_vars

\* the step starts deleteAllMeetingData
deletes ==
  /\ Len(ops') = Len(ops) + 1
  /\ ops'[Len(ops')].kind = "clearAll"

\* C21: the meeting data is deleted only by a click on a trash button
\* whose last event was a click, that is, a button that was clicked before
\* and has not reverted since; the first click on a button and the first
\* click after a revert never delete
C21_DeleteNeedsConfirm ==
  [][deletes => /\ clicks # <<>>
                /\ clicks[Len(clicks)] = "click"
                /\ clicks' = Append(clicks, "click")]_vars

\* the data of a note with results was deleted by the click that followed
\* a click, a revert and a second click on the same button
C21_Witness ==
  /\ clicks = <<"click", "revert", "click", "click">>
  /\ widget.results = <<>>
  /\ cachedResults = <<>>
  /\ noteFile.results
  /\ \E k \in 1..Len(ops) : ops[k].kind = "clearAll"

retryPending == widget.pending # NoHandler /\ widget.pending.kind = "retry"

\* a retry can be clicked: the error state with a path, no handler pending
retryPossible(w) ==
  /\ w.state.status = "error"
  /\ w.state.audioFilePath # Null
  /\ w.pending = NoHandler

\* a step that starts a retry goes from the error state to processing
\* and hands the audioFilePath of the error state to the handler
RetryStarted ==
  (widget.state.status = "error" /\ ~retryPending /\ retryPending')
    => /\ retryPossible(widget)
       /\ widget'.state.status = "processing"
       /\ widget'.pending.audioFilePath = widget.state.audioFilePath

\* a step that ends a retry leaves the widget done with one result more,
\* or in the error state with the path of the retry, where the next retry
\* can be clicked
RetryEnded ==
  (retryPending /\ ~retryPending')
    => \/ /\ widget'.state.status = "done"
          /\ \E r \in ResultEntries :
               widget'.results = Append(widget.results, r)
       \/ /\ retryPossible(widget')
          /\ widget'.state.audioFilePath = widget.pending.audioFilePath
          /\ widget'.results = widget.results

\* C29: a retry started from the error state moves the widget to
\* processing and from there to done, the new result appended, or back to
\* the error state with the audioFilePath it had before; the path is held
\* while the retry runs, so after each failed retry the next one can be
\* started
C29_RetryKeepsPath ==
  /\ [](retryPending => /\ widget.state.status = "processing"
                        /\ widget.pending.audioFilePath # Null)
  /\ [][RetryStarted /\ RetryEnded]_vars

\* a retry has failed and the widget is back in the error state with the
\* path of the note's error block
C29_Witness ==
  /\ retryPossible(widget)
  /\ entered # NoEntry
  /\ widget.state.audioFilePath = entered.audioFilePath
  /\ noteFile.error # NoEntry
  /\ noteFile.error.message # entered.message
  /\ noteFile.error.audioFilePath = entered.audioFilePath

\* no id occurs at two positions of a segment list
idsDistinct(segments) ==
  \A p, q \in 1..Len(segments) : segments[p] = segments[q] => p = q

\* C28: in the combined segment list of the note, the one the transcript
\* tab renders and the one saved to the file, every segment id belongs to
\* exactly one segment
C28_SegmentIdsUnique ==
  /\ idsDistinct(flatSegments(widget.results))
  /\ idsDistinct(noteFile.segments)

\* the step is the vault.modify of the k-th file operation
modifies(k) ==
  /\ ops[k].phase = "modify"
  /\ ops' = withoutOp(k)
  /\ noteFile' = ops[k].content

\* the blocks a save of this kind does not write are in the file after
\* its vault.modify as they were before it
otherBlocksKept(kind) ==
  /\ kind # "saveNotes" => noteFile'.notes = noteFile.notes
  /\ kind \notin {"saveError", "clearError"}
       => noteFile'.error = noteFile.error
  /\ kind # "saveResults" => /\ noteFile'.results = noteFile.results
                             /\ noteFile'.segments = noteFile.segments

\* C26: saves of different blocks of the note file that overlap in time
\* lose no update: a save that completes leaves the blocks of the other
\* saves in the file as they wrote them
C26_NoLostBlock ==
  [][\A k \in 1..Len(ops) : modifies(k) => otherBlocksKept(ops[k].kind)]_vars

\* C27: whenever the widget is in the state done, no error entry is cached
\* for its note
C27_DoneWithoutError ==
  widget.state.status = "done" => errorCache = NoEntry

\* a start of Obsidian: the caches are empty, the note's file is as an
\* earlier session left it
InitWidget ==
  /\ errorCache = NoEntry
  /\ cachedResults = <<>>
  /\ noteFile \in NoteFiles
  /\ widget = NoWidget
  /\ detached = [handler |-> NoHandler, load |-> FALSE]
  /\ ops = <<>>
  /\ created = 0
  /\ entered = NoEntry
  /\ notesContent = ""
  /\ trashBtn = NewButton
  /\ clicks = <<>>
  /\ TranscribeIdle
  /\ ChunkerIdle
  /\ OtherIdle
  /\ LabelIdle
  /\ StopIdle
  /\ WavIdle

NextWidget ==
  \/ CreateWidget
  \/ Load
  \/ LoadDetached
  \/ StartClick
  \/ StartClickFails
  \/ StopClick
  \/ \E e \in StopFailures : StopFails(e)
  \/ StopReturnsNull
  \/ RetryClick
  \/ \E m \in Messages : RetryFails(m)
  \/ \E e \in ErrorEntries : DetachedFails(e)
  \/ \E k \in 1..MaxOps : FileOpRead(k)
  \/ \E k \in 1..MaxOps : FileOpModify(k)

SpecWidget == InitWidget /\ [][NextWidget]_vars

\* results are known for the note: in the cache or in the note's file
resultsExist == cachedResults # <<>> \/ noteFile.results

\* the error state last entered is the one the error cache holds
ErrorStored ==
  (entered # NoEntry /\ ~resultsExist) => errorCache = entered

\* a step that creates a widget creates it in the error state last entered
CreatedInError ==
  (created' = created + 1 /\ entered # NoEntry /\ ~resultsExist) =>
    widget'.state = errorState(entered)

\* C20: while the last state entered through setState is an error state
\* (no setState to idle or done since) and no results exist for the note,
\* the error cache holds an entry with that message and audioFilePath,
\* and a widget created for the note starts in the 'error' state with
\* that message and audioFilePath.
C20_ErrorRestored == []ErrorStored /\ [][CreatedInError]_vars

=============================================================================
